---- MODULE Spec2Model ----
(***************************************************************************)
(* external-mdns: translation of Kubernetes Services and Ingresses into    *)
(* mDNS records (source/service.go, source/ingress.go, the record          *)
(* builders) and the dispatcher loop of main() that hands the records of   *)
(* every event to the publisher.                                           *)
(*                                                                         *)
(* Go strings are sequences of one-character strings, so that HasSuffix,   *)
(* ToLower and Sprintf are computed character by character.  A net.IP is   *)
(* a sequence of bytes, nil being the empty sequence.                      *)
(***************************************************************************)
EXTENDS Integers, Sequences, FiniteSets, TLC

\* ------------------------------------------------------------------ strings

\* strings.HasSuffix(s, suffix)
HasSuffix(s, suffix) ==
    /\ Len(s) >= Len(suffix)
    /\ SubSeq(s, Len(s) - Len(suffix) + 1, Len(s)) = suffix

UpperLetters ==
    << "A","B","C","D","E","F","G","H","I","J","K","L","M",
       "N","O","P","Q","R","S","T","U","V","W","X","Y","Z" >>

LowerLetters ==
    << "a","b","c","d","e","f","g","h","i","j","k","l","m",
       "n","o","p","q","r","s","t","u","v","w","x","y","z" >>

\* strings.ToLower(s), on the ASCII letters
ToLower(s) ==
    [ i \in 1..Len(s) |->
        IF \E k \in 1..Len(UpperLetters) : UpperLetters[k] = s[i]
        THEN LowerLetters[CHOOSE k \in 1..Len(UpperLetters) : UpperLetters[k] = s[i]]
        ELSE s[i] ]

DecDigits == << "0","1","2","3","4","5","6","7","8","9" >>

HexDigits == << "0","1","2","3","4","5","6","7","8","9","a","b","c","d","e","f" >>

\* fmt's %d verb for a non-negative integer
RECURSIVE FmtD(_)
FmtD(n) ==
    IF n < 10 THEN << DecDigits[n + 1] >>
    ELSE FmtD(n \div 10) \o << DecDigits[(n % 10) + 1] >>

\* fmt's %x verb for a nibble
FmtX(n) == << HexDigits[n + 1] >>

Dot == << "." >>

\* the literal ".local." and its pieces
SufLocal == << ".", "l","o","c","a","l" >>

SufLocalDot == << ".", "l","o","c","a","l", "." >>

StrLocalDot == << "l","o","c","a","l", "." >>

StrInAddrArpa == << "i","n","-","a","d","d","r",".","a","r","p","a","." >>

StrIp6Arpa == << "i","p","6",".","a","r","p","a","." >>

\* -------------------------------------------------------------- net.IP

\* the 12-byte prefix of an IPv4-mapped IPv6 address
V4InV6Prefix == << 0,0,0,0, 0,0,0,0, 0,0,255,255 >>

\* net.IP.To4: the 4-byte form, or nil
To4(ip) ==
    IF Len(ip) = 4 THEN ip
    ELSE IF Len(ip) = 16 /\ SubSeq(ip, 1, 12) = V4InV6Prefix THEN SubSeq(ip, 13, 16)
    ELSE << >>

\* net.IP.To16: the 16-byte form, or nil
To16(ip) ==
    IF Len(ip) = 4 THEN V4InV6Prefix \o ip
    ELSE IF Len(ip) = 16 THEN ip
    ELSE << >>

\* the value of a decimal digit character, -1 for any other character
DigitVal(c) ==
    IF \E k \in 1..10 : DecDigits[k] = c
    THEN (CHOOSE k \in 1..10 : DecDigits[k] = c) - 1
    ELSE -1

\* split a string at every "."
RECURSIVE SplitDots(_, _, _)
SplitDots(s, cur, acc) ==
    IF s = << >> THEN Append(acc, cur)
    ELSE IF Head(s) = "." THEN SplitDots(Tail(s), << >>, Append(acc, cur))
    ELSE SplitDots(Tail(s), Append(cur, Head(s)), acc)

\* one dotted-decimal field: 1 to 3 digits, no leading zero, at most 255; else -1
RECURSIVE DecVal(_, _)
DecVal(f, acc) ==
    IF f = << >> THEN acc
    ELSE IF DigitVal(Head(f)) < 0 THEN -1
    ELSE DecVal(Tail(f), 10 * acc + DigitVal(Head(f)))

FieldVal(f) ==
    IF Len(f) < 1 \/ Len(f) > 3 THEN -1
    ELSE IF Len(f) > 1 /\ f[1] = "0" THEN -1
    ELSE IF DecVal(f, 0) > 255 THEN -1
    ELSE DecVal(f, 0)

\* the IPv6 literals of the model, with their 16 bytes
IPv6Literals ==
    { [ text  |-> << "2","0","0","1",":","d","b","8",":",":","1" >>,
        bytes |-> << 32,1,13,184, 0,0,0,0, 0,0,0,0, 0,0,0,1 >> ],
      [ text  |-> << ":",":","f","f","f","f",":","1","9","2",".","0",".","2",".","1","0" >>,
        bytes |-> << 0,0,0,0, 0,0,0,0, 0,0,255,255, 192,0,2,10 >> ] }

\* net.ParseIP: dotted-decimal IPv4 (returned in 16-byte form, as Go does),
\* a known IPv6 literal, or nil
ParseIP(s) ==
    LET f == SplitDots(s, << >>, << >>) IN
    IF Len(f) = 4 /\ \A k \in 1..4 : FieldVal(f[k]) >= 0
    THEN V4InV6Prefix \o [ k \in 1..4 |-> FieldVal(f[k]) ]
    ELSE IF \E l \in IPv6Literals : l.text = s
    THEN (CHOOSE l \in IPv6Literals : l.text = s).bytes
    ELSE << >>

\* -------------------------------------------------------------- dns.RR

\* dns.ClassINET
ClassINET == 1

\* one resource record: the header fields and the payload of its type,
\* every field a record does not have at Go's zero value
RR(name, rrtype, addr, ptr, port, target, txt) ==
    [ Name |-> name, Rrtype |-> rrtype, Class |-> 0, Ttl |-> 0,
      Addr |-> addr, Ptr |-> ptr,
      Priority |-> 0, Weight |-> 0, Port |-> port, Target |-> target,
      Txt |-> txt ]

\* the reverse name of a 4-byte address: "%d.%d.%d.%d.in-addr.arpa."
ReverseV4(a) ==
    FmtD(a[4]) \o Dot \o FmtD(a[3]) \o Dot \o FmtD(a[2]) \o Dot \o FmtD(a[1])
      \o Dot \o StrInAddrArpa

\* ReverseV6Labels with the high nibble of every byte put first
RECURSIVE ReverseV6Labels_highFirst(_, _)
ReverseV6Labels_highFirst(a, i) ==
    IF i >= Len(a) THEN << >>
    ELSE LET b == a[Len(a) - i] IN
         FmtX(b \div 16) \o Dot \o FmtX(b % 16) \o Dot
           \o ReverseV6Labels_highFirst(a, i + 1)

\* the reverse name of a 16-byte address: for the bytes last to first,
\* "%x.%x." of the low then the high nibble, then "ip6.arpa."
RECURSIVE ReverseV6Labels(_, _)
ReverseV6Labels(a, i) ==
    IF i >= Len(a) THEN << >>
    ELSE LET b == a[Len(a) - i] IN
         FmtX(b % 16) \o Dot \o FmtX(b \div 16) \o Dot \o ReverseV6Labels(a, i + 1)

ReverseV6(a) == ReverseV6Labels(a, 0) \o StrIp6Arpa

\* buildARecord(name, addr, addReverse)
buildARecord(name, addr, addReverse) ==
    LET v4      == Len(To4(addr)) = 4
        a       == IF v4 THEN To4(addr) ELSE To16(addr)
        reverse == RR(IF v4 THEN ReverseV4(a) ELSE ReverseV6(a), "PTR",
                      << >>, name, 0, << >>, << >>)
        forward == RR(name, IF v4 THEN "A" ELSE "AAAA", a, << >>, 0, << >>, << >>)
    IN  IF addReverse THEN << forward, reverse >> ELSE << forward >>

\* buildSRVRecord without the lowercasing of the service name
buildSRVRecord_noLower(instancename, servicename, protocol, hostname, port, txt) ==
    IF instancename = << >> \/ servicename = << >> \/ hostname = << >> \/ port = 0
    THEN << >>
    ELSE IF protocol \notin { "TCP", "UDP" } THEN << >>
    ELSE LET txt1        == IF Len(txt) = 0 THEN << << >> >> ELSE txt
             proto       == IF protocol = "TCP" THEN << "t","c","p" >> ELSE << "u","d","p" >>
             dnsservice  == << "_" >> \o servicename \o << ".", "_" >> \o proto
                              \o SufLocalDot
             dnsinstance == instancename \o Dot \o dnsservice
         IN  << RR(dnsservice, "PTR", << >>, dnsinstance, 0, << >>, << >>),
                RR(dnsinstance, "SRV", << >>, << >>, port, hostname, << >>),
                RR(dnsinstance, "TXT", << >>, << >>, 0, << >>, txt1) >>

\* buildSRVRecord(instancename, servicename, protocol, hostname, port, txt)
buildSRVRecord(instancename, servicename, protocol, hostname, port, txt) ==
    IF instancename = << >> \/ servicename = << >> \/ hostname = << >> \/ port = 0
    THEN << >>
    ELSE IF protocol \notin { "TCP", "UDP" } THEN << >>
    ELSE LET txt1        == IF Len(txt) = 0 THEN << << >> >> ELSE txt
             proto       == IF protocol = "TCP" THEN << "t","c","p" >> ELSE << "u","d","p" >>
             dnsservice  == << "_" >> \o ToLower(servicename) \o << ".", "_" >> \o proto
                              \o SufLocalDot
             dnsinstance == instancename \o Dot \o dnsservice
         IN  << RR(dnsservice, "PTR", << >>, dnsinstance, 0, << >>, << >>),
                RR(dnsinstance, "SRV", << >>, << >>, port, hostname, << >>),
                RR(dnsinstance, "TXT", << >>, << >>, 0, << >>, txt1) >>

\* ------------------------------------------------------ ServiceSource

\* the annotation keys of a Service
AnnHostname == "external-mdns.blake.github.io/hostname"

AnnInstance == "external-mdns.blake.github.io/service-instance"

AnnTxt == "external-mdns.blake.github.io/service-txt"

AnnPublish == "external-mdns.blake.github.io/publish"

StrHttp == << "h","t","t","p" >>

StrPath == << "p","a","t","h" >>

StrV == << "v" >>

\* the service-txt texts of the model: what json.Unmarshal into a
\* map[string]map[string]string makes of each (err == nil, the port names
\* and, for every port, the keys with their values)
TxtTwoKeys == << "{","\"","h","t","t","p","\"",":","{","\"","p","a","t","h","\"",":","\"","/","\"",",","\"","v","\"",":","\"","1","\"","}","}" >>

TxtOneKey == << "{","\"","h","t","t","p","\"",":","{","\"","v","\"",":","\"","1","\"","}","}" >>

TxtMalformed == << "{","\"","h","t","t","p","\"",":" >>

\* {"http":{"v":"1","path":2}}: well-formed JSON of another shape
TxtWrongShape == << "{","\"","h","t","t","p","\"",":","{","\"","v","\"",":","\"","1","\"",",","\"","p","a","t","h","\"",":","2","}","}" >>

JSONTexts ==
    { [ text |-> TxtTwoKeys, ok |-> TRUE, ports |-> { StrHttp },
        keys |-> { StrPath, StrV },
        val  |-> [ k \in { StrPath, StrV } |-> IF k = StrPath THEN << "/" >> ELSE << "1" >> ] ],
      [ text |-> TxtOneKey, ok |-> TRUE, ports |-> { StrHttp },
        keys |-> { StrV },
        val  |-> [ k \in { StrV } |-> << "1" >> ] ],
      [ text |-> TxtMalformed, ok |-> FALSE, ports |-> { },
        keys |-> { },
        val  |-> << >> ],
      \* a value of the wrong type: Unmarshal goes on past it, leaves what it
      \* decoded in the map (the mistyped value at its zero value) and
      \* returns an UnmarshalTypeError
      [ text |-> TxtWrongShape, ok |-> FALSE, ports |-> { StrHttp },
        keys |-> { StrPath, StrV },
        val  |-> [ k \in { StrPath, StrV } |-> IF k = StrPath THEN << >> ELSE << "1" >> ] ] }

\* json.Unmarshal([]byte(txtstr), &txtmap): any text outside the table is an error
Unmarshal(txtstr) ==
    IF \E j \in JSONTexts : j.text = txtstr
    THEN CHOOSE j \in JSONTexts : j.text = txtstr
    ELSE [ text |-> txtstr, ok |-> FALSE, ports |-> { }, keys |-> { }, val |-> << >> ]

\* the orders in which a range over the inner map can visit its keys
KeyOrders == { << StrPath, StrV >>, << StrV, StrPath >> }

\* "for k, v := range txt { append(..., k=v) }" visiting the keys in order ord
RECURSIVE RangeTxt(_, _)
RangeTxt(j, ord) ==
    IF ord = << >> THEN << >>
    ELSE IF Head(ord) \in j.keys
         THEN << Head(ord) \o << "=" >> \o j.val[Head(ord)] >> \o RangeTxt(j, Tail(ord))
         ELSE RangeTxt(j, Tail(ord))

\* SvcTxt with the map read whatever json.Unmarshal returned
SvcTxt_errIgnored(ann, portName, ord) ==
    LET hasTxt == AnnTxt \in DOMAIN ann
        txtstr == IF hasTxt THEN ann[AnnTxt] ELSE << >>
        j      == Unmarshal(txtstr)
    IN  IF txtstr # << >> /\ hasTxt /\ portName \in j.ports
        THEN RangeTxt(j, ord)
        ELSE << >>

\* svctxt[portName] after the annotation has been read
SvcTxt(ann, portName, ord) ==
    LET hasTxt == AnnTxt \in DOMAIN ann
        txtstr == IF hasTxt THEN ann[AnnTxt] ELSE << >>
        j      == Unmarshal(txtstr)
    IN  IF txtstr # << >> /\ hasTxt /\ j.ok /\ portName \in j.ports
        THEN RangeTxt(j, ord)
        ELSE << >>

\* the loop over the load-balancer entries keeping the first IP it meets
RECURSIVE LastLBIP_first(_, _)
LastLBIP_first(lbs, ip) ==
    IF lbs = << >> THEN ip
    ELSE LastLBIP_first(Tail(lbs),
                        IF Head(lbs) # << >> /\ ip = << >> THEN ParseIP(Head(lbs)) ELSE ip)

\* "for _, lb := range ...Ingress { if lb.IP != "" { ip = net.ParseIP(lb.IP) } }"
RECURSIVE LastLBIP(_, _)
LastLBIP(lbs, ip) ==
    IF lbs = << >> THEN ip
    ELSE LastLBIP(Tail(lbs), IF Head(lbs) # << >> THEN ParseIP(Head(lbs)) ELSE ip)

\* the address a Service is published under, nil if none
ServiceIP(service) ==
    IF service.Type = "ClusterIP" THEN ParseIP(service.ClusterIP)
    ELSE IF service.Type = "LoadBalancer" THEN LastLBIP(service.LBIngress, << >>)
    ELSE << >>

\* the hostname steps with "local." tested in place of ".local."
NormalizeHostname_localOnly(hostname) ==
    LET h1 == IF ~HasSuffix(hostname, Dot) THEN hostname \o Dot ELSE hostname
    IN  IF ~HasSuffix(h1, StrLocalDot) THEN h1 \o StrLocalDot ELSE h1

\* the two HasSuffix steps that make the hostname end in ".local."
NormalizeHostname(hostname) ==
    LET h1 == IF ~HasSuffix(hostname, Dot) THEN hostname \o Dot ELSE hostname
    IN  IF ~HasSuffix(h1, SufLocalDot) THEN h1 \o StrLocalDot ELSE h1

\* uint16(port.Port)
Uint16(n) == n % 65536

\* PortRecords with the loop left at the first port whose bundle is empty
RECURSIVE PortRecords_stopAtSkipped(_, _, _, _, _)
PortRecords_stopAtSkipped(service, instancename, hostname, ord, i) ==
    IF i > Len(service.Ports) THEN << >>
    ELSE LET port   == service.Ports[i]
             bundle == buildSRVRecord(instancename, port.Name, port.Protocol, hostname,
                                      Uint16(port.Port),
                                      SvcTxt(service.Annotations, port.Name, ord))
         IN  IF bundle = << >> THEN << >>
             ELSE bundle \o PortRecords_stopAtSkipped(service, instancename, hostname,
                                                      ord, i + 1)

\* the bundles of the ports from index i on, in Spec.Ports order
RECURSIVE PortRecords(_, _, _, _, _)
PortRecords(service, instancename, hostname, ord, i) ==
    IF i > Len(service.Ports) THEN << >>
    ELSE LET port == service.Ports[i] IN
         buildSRVRecord(instancename, port.Name, port.Protocol, hostname,
                        Uint16(port.Port), SvcTxt(service.Annotations, port.Name, ord))
           \o PortRecords(service, instancename, hostname, ord, i + 1)

\* ServiceEligible with the test of the publish annotation inverted
ServiceEligible_publishInverted(publishAll, ann) ==
    ~ ( /\ ~publishAll
        /\ AnnHostname \notin DOMAIN ann
        /\ AnnInstance \notin DOMAIN ann
        /\ AnnTxt \notin DOMAIN ann
        /\ AnnPublish \in DOMAIN ann )

\* whether the annotations (or publish-all) let the Service through
ServiceEligible(publishAll, ann) ==
    ~ ( /\ ~publishAll
        /\ AnnHostname \notin DOMAIN ann
        /\ AnnInstance \notin DOMAIN ann
        /\ AnnTxt \notin DOMAIN ann
        /\ AnnPublish \notin DOMAIN ann )

\* ServiceSource.buildRecords with the bundles of the ports put before the
\* address records
ServiceSource_buildRecords_portsFirst(publishAll, obj, ord) ==
    IF obj.kind # "Service" THEN << >>
    ELSE LET ann          == obj.Annotations
             hostname     == IF AnnHostname \in DOMAIN ann THEN ann[AnnHostname]
                             ELSE obj.Name \o Dot \o obj.Namespace \o SufLocalDot
             instancename == IF AnnInstance \in DOMAIN ann THEN ann[AnnInstance]
                             ELSE obj.Namespace \o << "/" >> \o obj.Name
             ip           == ServiceIP(obj)
             hostname1    == NormalizeHostname(hostname)
         IN  IF ~ServiceEligible(publishAll, ann) THEN << >>
             ELSE IF ip = << >> THEN << >>
             ELSE PortRecords(obj, instancename, hostname1, ord, 1)
                    \o buildARecord(hostname1, ip, TRUE)

\* ServiceSource.buildRecords(obj); ord is the order the range over the
\* service-txt map takes
ServiceSource_buildRecords(publishAll, obj, ord) ==
    IF obj.kind # "Service" THEN << >>
    ELSE LET ann          == obj.Annotations
             hostname     == IF AnnHostname \in DOMAIN ann THEN ann[AnnHostname]
                             ELSE obj.Name \o Dot \o obj.Namespace \o SufLocalDot
             instancename == IF AnnInstance \in DOMAIN ann THEN ann[AnnInstance]
                             ELSE obj.Namespace \o << "/" >> \o obj.Name
             ip           == ServiceIP(obj)
             hostname1    == NormalizeHostname(hostname)
         IN  IF ~ServiceEligible(publishAll, ann) THEN << >>
             ELSE IF ip = << >> THEN << >>
             ELSE buildARecord(hostname1, ip, TRUE)
                    \o PortRecords(obj, instancename, hostname1, ord, 1)

\* ------------------------------------------------------ IngressSource

\* RuleRecords without the test of the ".local" suffix
RECURSIVE RuleRecords_anySuffix(_, _, _)
RuleRecords_anySuffix(rules, ip, i) ==
    IF i > Len(rules) THEN << >>
    ELSE ( IF rules[i] # << >>
           THEN buildARecord(rules[i] \o Dot, ip, FALSE)
           ELSE << >> )
         \o RuleRecords_anySuffix(rules, ip, i + 1)

\* RuleRecords with the rule host itself as the record's name
RECURSIVE RuleRecords_rawHost(_, _, _)
RuleRecords_rawHost(rules, ip, i) ==
    IF i > Len(rules) THEN << >>
    ELSE ( IF rules[i] # << >> /\ HasSuffix(rules[i], SufLocal)
           THEN buildARecord(rules[i], ip, FALSE)
           ELSE << >> )
         \o RuleRecords_rawHost(rules, ip, i + 1)

\* the records of the rules from index i on, in Spec.Rules order
RECURSIVE RuleRecords(_, _, _)
RuleRecords(rules, ip, i) ==
    IF i > Len(rules) THEN << >>
    ELSE ( IF rules[i] # << >> /\ HasSuffix(rules[i], SufLocal)
           THEN buildARecord(rules[i] \o Dot, ip, FALSE)
           ELSE << >> )
         \o RuleRecords(rules, ip, i + 1)

\* IngressSource.buildRecords without the namespace test
IngressSource_buildRecords_noNamespace(ns, obj) ==
    IF obj.kind # "Ingress" THEN << >>
    ELSE LET ip == LastLBIP(obj.LBIngress, << >>) IN
         IF ip = << >> THEN << >>
         ELSE RuleRecords(obj.Rules, ip, 1)

\* IngressSource.buildRecords(obj), ns being the watcher's namespace field
IngressSource_buildRecords(ns, obj) ==
    IF obj.kind # "Ingress" THEN << >>
    ELSE LET ip == LastLBIP(obj.LBIngress, << >>) IN
         IF ip = << >> THEN << >>
         ELSE IF ns # << >> /\ ns # obj.Namespace THEN << >>
         ELSE RuleRecords(obj.Rules, ip, 1)

\* ---------------------------------------------------------- the objects

StrExample == << "e","x","a","m","p","l","e" >>

StrDefault == << "d","e","f","a","u","l","t" >>

StrProd == << "p","r","o","d" >>

StrNas == << "n","a","s" >>

StrNasLocalDot == << "N","A","S",".","l","o","c","a","l","." >>

StrMyNas == << "M","y"," ","N","A","S" >>

\* a hostname annotation that ends in two dots
StrNasDots == << "n","a","s",".","." >>

IPCluster == << "1","0",".","0",".","0",".","1" >>

StrNone == << "N","o","n","e" >>

IPv4a == << "1","9","2",".","0",".","2",".","1","0" >>

IPv4b == << "1","9","2",".","0",".","2",".","1","1" >>

IPv6a == << "2","0","0","1",":","d","b","8",":",":","1" >>

HostApp == << "a","p","p",".","l","o","c","a","l" >>

HostWeb == << "w","e","b",".","l","o","c","a","l" >>

HostCom == << "a","p","p",".","e","x","a","m","p","l","e",".","c","o","m" >>

\* a rule host written with its trailing dot
HostAppDot == << "a","p","p",".","l","o","c","a","l","." >>

\* an optional annotation: << >> is absent, << v >> is present with value v
Annotations(h, i, t, p) ==
    [ k \in ( (IF h # << >> THEN { AnnHostname } ELSE { })
              \cup (IF i # << >> THEN { AnnInstance } ELSE { })
              \cup (IF t # << >> THEN { AnnTxt } ELSE { })
              \cup (IF p # << >> THEN { AnnPublish } ELSE { }) ) |->
        IF k = AnnHostname THEN h[1]
        ELSE IF k = AnnInstance THEN i[1]
        ELSE IF k = AnnTxt THEN t[1]
        ELSE p[1] ]

AnnotationSets ==
    { Annotations(h, i, t, p) :
        h \in { << >>, << StrNas >>, << StrNasLocalDot >>, << StrNasDots >> },
        i \in { << >>, << StrMyNas >> },
        t \in { << >>, << << >> >>, << TxtTwoKeys >>, << TxtMalformed >>,
                << TxtWrongShape >> },
        p \in { << >>, << << >> >> } }

\* Spec.Type, Spec.ClusterIP and Status.LoadBalancer.Ingress[].IP together
ServiceAddresses ==
    { [ Type |-> "ClusterIP",    ClusterIP |-> IPCluster, LBIngress |-> << >> ],
      [ Type |-> "ClusterIP",    ClusterIP |-> StrNone,   LBIngress |-> << >> ],
      [ Type |-> "NodePort",     ClusterIP |-> IPCluster, LBIngress |-> << >> ],
      [ Type |-> "ExternalName", ClusterIP |-> << >>,     LBIngress |-> << >> ],
      [ Type |-> "LoadBalancer", ClusterIP |-> IPCluster, LBIngress |-> << >> ],
      [ Type |-> "LoadBalancer", ClusterIP |-> IPCluster, LBIngress |-> << << >> >> ],
      [ Type |-> "LoadBalancer", ClusterIP |-> IPCluster, LBIngress |-> << IPv4a >> ],
      [ Type |-> "LoadBalancer", ClusterIP |-> IPCluster, LBIngress |-> << IPv4a, << >> >> ],
      [ Type |-> "LoadBalancer", ClusterIP |-> IPCluster, LBIngress |-> << IPv4a, IPv6a >> ] }

PortHttp == [ Name |-> StrHttp, Port |-> 80, Protocol |-> "TCP" ]

PortDNS == [ Name |-> << "D","N","S" >>, Port |-> 53, Protocol |-> "UDP" ]

PortSCTP == [ Name |-> << "s","c","t","p" >>, Port |-> 132, Protocol |-> "SCTP" ]

PortUnnamed == [ Name |-> << >>, Port |-> 8080, Protocol |-> "TCP" ]

PortLists ==
    { << >>, << PortHttp >>, << PortHttp, PortDNS >>, << PortSCTP, PortHttp >>,
      << PortDNS, PortUnnamed, PortHttp >> }

ObjNamespaces == { StrDefault, StrProd }

Service(name, ns, ann, addr, ports) ==
    [ kind |-> "Service", Name |-> name, Namespace |-> ns, Annotations |-> ann,
      Type |-> addr.Type, ClusterIP |-> addr.ClusterIP, LBIngress |-> addr.LBIngress,
      Ports |-> ports ]

ServiceObjects ==
    { Service(StrExample, ns, ann, addr, ports) :
        ns \in ObjNamespaces, ann \in AnnotationSets,
        addr \in ServiceAddresses, ports \in PortLists }

\* the longest Spec.Rules of an Ingress of the model
MaxRules == 2

RuleHosts == { << >>, HostApp, HostWeb, HostCom, HostAppDot }

RuleLists == UNION { [ 1..n -> RuleHosts ] : n \in 0..MaxRules }

Ingress(name, ns, lbs, rules) ==
    [ kind |-> "Ingress", Name |-> name, Namespace |-> ns, LBIngress |-> lbs,
      Rules |-> rules ]

IngressObjects ==
    { Ingress(StrExample, ns, lbs, rules) :
        ns \in ObjNamespaces,
        lbs \in { << >>, << << >> >>, << IPv4a >>, << IPv4a, << >> >>, << IPv4b, IPv6a >> },
        rules \in RuleLists }

\* the values of the -namespace flag
NamespaceFlags == { << >>, StrDefault }

\* ------------------------------------------------------------ the state

VARIABLES
    publishAll,        \* main.go: var publishAll, handed to the Service watcher
    namespace,         \* main.go: var namespace, handed to the Ingress watcher
    recordTTL,         \* main.go: var recordTTL
    store,             \* the informers' caches: the last object seen under every key
    sending,           \* per watcher, the events its running callback has still
                       \* to send on notifyChan; it is blocked sending the first
    advertiseResource, \* the event the dispatcher has received last
    idx,               \* the index of the record the dispatcher's range is at
    dpc,               \* the dispatcher: "select" or, inside the loop body, "range"
    published,         \* the records the publisher announces
    calls,             \* the publisher calls made for advertiseResource, in order
    stopper,           \* main.go: the channel stopper, "open" or "closed"
    printed,           \* whether "Stopping program" has been written to standard output
    callLog,           \* history: every publisher call made, in order
    run,               \* per watcher, its Run goroutine: where it is, its
                       \* informer, HasSynced, and what it handed to HandleError
    notified,          \* history: the notifications the informers have delivered
    received,          \* history: the events the dispatcher has received
    call,              \* a single translation under way: the function and its argument
    ret,               \* what it returned
    pc                 \* "call" before the function has run, "return" after

config == << publishAll, namespace, recordTTL >>

system == << store, sending, advertiseResource, idx, dpc, published, calls,
             stopper, printed, callLog, run, notified, received >>

harness == << call, ret, pc >>

vars == << config, system, harness >>

\* ------------------------------------- the watchers and the dispatcher

\* main.go: recordTTL = 120
DefaultTTL == 120

\* the configurations the watchers and the dispatcher are run under: the
\* defaults, and every flag set
SystemConfigs ==
    { [ publishAll |-> FALSE, namespace |-> << >>,     recordTTL |-> DefaultTTL ],
      [ publishAll |-> TRUE,  namespace |-> StrDefault, recordTTL |-> 60 ] }

\* uint32(recordTTL): the low 32 bits, as two 16-bit halves
Uint32(n) == (n % 65536) + 65536 * ((n \div 65536) % 65536)

Watchers == { "service", "ingress" }

\* resource.Added and resource.Deleted
Added == "Added"

Deleted == "Deleted"

NoObject == [ kind |-> "none" ]

NoEvent == [ SourceType |-> "", Action |-> "", Records |-> << >> ]

StrWeb == << "w","e","b" >>

StrApi == << "a","p","i" >>

\* the Service of the end-to-end example: example/default, LoadBalancer
\* 192.0.2.10, port {http, 80, TCP}, only the publish annotation
ExampleService ==
    Service(StrExample, StrDefault, Annotations(<< >>, << >>, << >>, << << >> >>),
            [ Type |-> "LoadBalancer", ClusterIP |-> IPCluster, LBIngress |-> << IPv4a >> ],
            << PortHttp >>)

\* the Service of the example after its load balancer has moved and its
\* publish annotation has been taken away
ServiceMoved ==
    Service(StrExample, StrDefault, Annotations(<< >>, << >>, << >>, << >>),
            [ Type |-> "LoadBalancer", ClusterIP |-> IPCluster, LBIngress |-> << IPv4b >> ],
            << PortHttp >>)

\* two Ingresses behind one controller address, both with the host app.local
IngressWeb == Ingress(StrWeb, StrDefault, << IPv4a >>, << HostApp >>)

IngressWebRenamed == Ingress(StrWeb, StrDefault, << IPv4a >>, << HostWeb >>)

IngressApi == Ingress(StrApi, StrProd, << IPv4a >>, << HostApp, HostCom >>)

\* the keys (kind and namespace/name) the informers can see and the states
\* of the object under each
Keys == { "service default/example", "ingress default/web", "ingress prod/api" }

WatcherOf(key) == IF key = "service default/example" THEN "service" ELSE "ingress"

Versions(key) ==
    IF key = "service default/example" THEN { ExampleService, ServiceMoved }
    ELSE IF key = "ingress default/web" THEN { IngressWeb, IngressWebRenamed }
    ELSE { IngressApi }

\* BuildRecords with the object taken out of a DeletedFinalStateUnknown first
BuildRecords_unwrapping(w, obj, ord) ==
    LET o == IF obj.kind = "DeletedFinalStateUnknown" THEN obj.Obj ELSE obj IN
    IF w = "service" THEN ServiceSource_buildRecords(publishAll, o, ord)
    ELSE IngressSource_buildRecords(namespace, o)

\* the records a watcher builds for obj
BuildRecords(w, obj, ord) ==
    IF w = "service" THEN ServiceSource_buildRecords(publishAll, obj, ord)
    ELSE IngressSource_buildRecords(namespace, obj)

\* onAdd that sends nothing when buildRecords returned no records
onAdd_skipEmpty(w, obj, ord) ==
    IF BuildRecords(w, obj, ord) = << >> THEN << >>
    ELSE << [ SourceType |-> w, Action |-> Added, Records |-> BuildRecords(w, obj, ord) ] >>

\* onAdd(obj): the one send of the callback
onAdd(w, obj, ord) ==
    << [ SourceType |-> w, Action |-> Added, Records |-> BuildRecords(w, obj, ord) ] >>

\* onDelete(obj): the one send of the callback
onDelete(w, obj, ord) ==
    << [ SourceType |-> w, Action |-> Deleted, Records |-> BuildRecords(w, obj, ord) ] >>

\* onUpdate with the two calls exchanged
onUpdate_addFirst(w, oldObj, newObj, ord) ==
    onAdd(w, newObj, ord) \o onDelete(w, oldObj, ord)

\* onUpdate(oldObj, newObj): onDelete(oldObj) then onAdd(newObj)
onUpdate(w, oldObj, newObj, ord) ==
    onDelete(w, oldObj, ord) \o onAdd(w, newObj, ord)

\* the most notifications the informers deliver in a run of the model
MaxNotifications == 3

\* "go serviceController.Run(stopper)" has entered sharedInformer.Run: the
\* informer runs and has not yet listed the existing objects
InsideInformerRun ==
    [ pc |-> "sharedInformer.Run", informer |-> "running", HasSynced |-> FALSE,
      handled |-> << >>, err |-> "none" ]

\* the informer of watcher w delivers notifications while it runs
InformerRunning(w) == run[w].informer = "running"

SystemAtStart ==
    /\ store = [ key \in Keys |-> NoObject ]
    /\ sending = [ w \in Watchers |-> << >> ]
    /\ advertiseResource = NoEvent
    /\ idx = 1
    /\ dpc = "select"
    /\ published = { }
    /\ calls = << >>
    /\ stopper = "open"
    /\ printed = FALSE
    /\ callLog = << >>
    /\ run = [ w \in Watchers |-> InsideInformerRun ]
    /\ notified = << >>
    /\ received = << >>

HarnessIdle ==
    /\ call = [ fn |-> "none" ]
    /\ ret = << >>
    /\ pc = "idle"

Init ==
    /\ \E c \in SystemConfigs :
         /\ publishAll = c.publishAll
         /\ namespace = c.namespace
         /\ recordTTL = c.recordTTL
    /\ SystemAtStart
    /\ HarnessIdle

\* the informer of key's kind calls the AddFunc: the object appears
NotifyAdd(key) ==
    /\ Len(notified) < MaxNotifications
    /\ InformerRunning(WatcherOf(key))
    /\ sending[WatcherOf(key)] = << >>
    /\ store[key] = NoObject
    /\ \E obj \in Versions(key), ord \in KeyOrders :
         /\ store' = [ store EXCEPT ![key] = obj ]
         /\ sending' = [ sending EXCEPT ![WatcherOf(key)] = onAdd(WatcherOf(key), obj, ord) ]
         /\ notified' = Append(notified, [ w |-> WatcherOf(key), type |-> "add",
                                           oldObj |-> NoObject, newObj |-> obj ])
    /\ UNCHANGED << config, advertiseResource, idx, dpc, published, calls, stopper,
                    printed, callLog, received, harness, run >>

\* the informer calls the UpdateFunc: the object changes, or is resynced
NotifyUpdate(key) ==
    /\ Len(notified) < MaxNotifications
    /\ InformerRunning(WatcherOf(key))
    /\ sending[WatcherOf(key)] = << >>
    /\ store[key] # NoObject
    /\ \E obj \in Versions(key), ord \in KeyOrders :
         /\ store' = [ store EXCEPT ![key] = obj ]
         /\ sending' = [ sending EXCEPT ![WatcherOf(key)] =
                           onUpdate(WatcherOf(key), store[key], obj, ord) ]
         /\ notified' = Append(notified, [ w |-> WatcherOf(key), type |-> "update",
                                           oldObj |-> store[key], newObj |-> obj ])
    /\ UNCHANGED << config, advertiseResource, idx, dpc, published, calls, stopper,
                    printed, callLog, received, harness, run >>

\* the informer calls the DeleteFunc with the last known object
NotifyDelete(key) ==
    /\ Len(notified) < MaxNotifications
    /\ InformerRunning(WatcherOf(key))
    /\ sending[WatcherOf(key)] = << >>
    /\ store[key] # NoObject
    /\ \E ord \in KeyOrders :
         /\ store' = [ store EXCEPT ![key] = NoObject ]
         /\ sending' = [ sending EXCEPT ![WatcherOf(key)] =
                           onDelete(WatcherOf(key), store[key], ord) ]
         /\ notified' = Append(notified, [ w |-> WatcherOf(key), type |-> "delete",
                                           oldObj |-> store[key], newObj |-> NoObject ])
    /\ UNCHANGED << config, advertiseResource, idx, dpc, published, calls, stopper,
                    printed, callLog, received, harness, run >>

\* record.Header().Ttl = uint32(recordTTL); record.Header().Class = dns.ClassINET
Stamp(record, ttl) == [ record EXCEPT !.Ttl = Uint32(ttl), !.Class = ClassINET ]

\* the switch on the action with its two cases exchanged
Route_exchanged(action) ==
    IF action = Added THEN "UnPublish"
    ELSE IF action = Deleted THEN "Publish"
    ELSE "none"

\* switch advertiseResource.Action: the publisher call of each case
Route(action) ==
    IF action = Added THEN "Publish"
    ELSE IF action = Deleted THEN "UnPublish"
    ELSE "none"

\* mdns.Publish(record) and mdns.UnPublish(record) on a publisher that keeps
\* a set of records
PublisherAfter(set, op, record) ==
    IF op = "Publish" THEN set \cup { record }
    ELSE IF op = "UnPublish" THEN set \ { record }
    ELSE set

\* Receive with the sender's callback abandoned at its first send
Receive_dropping(w) ==
    /\ dpc = "select"
    /\ sending[w] # << >>
    /\ advertiseResource' = Head(sending[w])
    /\ sending' = [ sending EXCEPT ![w] = << >> ]
    /\ idx' = 1
    /\ calls' = << >>
    /\ dpc' = IF Head(sending[w]).Records = << >> THEN "select" ELSE "range"
    /\ received' = Append(received, [ ev |-> Head(sending[w]), w |-> w ])
    /\ UNCHANGED << config, store, published, stopper, printed, callLog, notified, harness, run >>

\* Receive taken while the range over the previous event's records is
\* still under way
Receive_preempting(w) ==
    /\ sending[w] # << >>
    /\ advertiseResource' = Head(sending[w])
    /\ sending' = [ sending EXCEPT ![w] = Tail(sending[w]) ]
    /\ idx' = 1
    /\ calls' = << >>
    /\ dpc' = IF Head(sending[w]).Records = << >> THEN "select" ELSE "range"
    /\ received' = Append(received, [ ev |-> Head(sending[w]), w |-> w ])
    /\ UNCHANGED << config, store, published, stopper, printed, callLog, notified, harness, run >>

\* "case advertiseResource := <-notifyMdns": notifyChan has no buffer, so the
\* receive is the moment watcher w's send completes
Receive(w) ==
    /\ dpc = "select"
    /\ sending[w] # << >>
    /\ advertiseResource' = Head(sending[w])
    /\ sending' = [ sending EXCEPT ![w] = Tail(sending[w]) ]
    /\ idx' = 1
    /\ calls' = << >>
    /\ dpc' = IF Head(sending[w]).Records = << >> THEN "select" ELSE "range"
    /\ received' = Append(received, [ ev |-> Head(sending[w]), w |-> w ])
    /\ UNCHANGED << config, store, published, stopper, printed, callLog, notified, harness, run >>

\* one turn of "for _, record := range advertiseResource.Records"
HandleRecord ==
    /\ dpc = "range"
    /\ LET record == Stamp(advertiseResource.Records[idx], recordTTL)
           op     == Route(advertiseResource.Action)
       IN  /\ published' = PublisherAfter(published, op, record)
           /\ calls' = IF op = "none" THEN calls
                       ELSE Append(calls, [ op |-> op, record |-> record ])
           /\ callLog' = IF op = "none" THEN callLog
                         ELSE Append(callLog, [ ev |-> Len(received), op |-> op,
                                                record |-> record ])
    /\ idx' = idx + 1
    /\ dpc' = IF idx = Len(advertiseResource.Records) THEN "select" ELSE "range"
    /\ UNCHANGED << config, store, sending, advertiseResource, stopper, printed,
                    notified, received, harness, run >>

Next ==
    \/ \E key \in Keys : NotifyAdd(key)
    \/ \E key \in Keys : NotifyUpdate(key)
    \/ \E key \in Keys : NotifyDelete(key)
    \/ \E w \in Watchers : Receive(w)
    \/ HandleRecord

\* stopper is closed by main's deferred close only, and the loop of main
\* never returns, so no step of Next closes it
Spec == Init /\ [][Next]_vars

\* ------------------------------------------------- with the stop signal

\* close(stopper): the stop signal is raised while the dispatcher runs
CloseStopper ==
    /\ stopper = "open"
    /\ stopper' = "closed"
    /\ UNCHANGED << config, store, sending, advertiseResource, idx, dpc, published,
                    calls, printed, callLog, notified, received, harness, run >>

\* "case <-stopper: fmt.Println("Stopping program")": a receive from the
\* closed channel; the arm has no return and no break, so the for loop goes
\* back to its select
StopCase ==
    /\ dpc = "select"
    /\ stopper = "closed"
    /\ printed' = TRUE
    /\ dpc' = "select"
    /\ UNCHANGED << config, store, sending, advertiseResource, idx, published,
                    calls, stopper, callLog, notified, received, harness, run >>

NextStop ==
    \/ Next
    \/ CloseStopper
    \/ StopCase

\* the main goroutine is scheduled: a select with a ready case is taken and
\* a publisher call returns
DispatcherFairness ==
    /\ WF_vars(\E w \in Watchers : Receive(w))
    /\ WF_vars(HandleRecord)
    /\ WF_vars(StopCase)

SpecStop == Init /\ [][NextStop]_vars /\ DispatcherFairness

\* C12: once the stop signal is raised, the dispatcher loop eventually
\* returns, and from then on it makes no publisher call.
C12_Cancellation == (stopper = "closed") ~> [](dpc = "returned")

\* ------------------------------------------------------- the Run method

\* the informer of watcher w has listed the existing objects: HasSynced
\* answers true from now on
InformerSynced(w) ==
    /\ InformerRunning(w)
    /\ ~ run[w].HasSynced
    /\ run' = [ run EXCEPT ![w].HasSynced = TRUE ]
    /\ UNCHANGED << config, store, sending, advertiseResource, idx, dpc, published,
                    calls, stopper, printed, callLog, notified, received, harness >>

\* "s.sharedInformer.Run(stopCh)" returns: the call is made in Run's own
\* goroutine and comes back only when stopCh is closed and the informer has
\* stopped
InformerRunReturns(w) ==
    /\ run[w].pc = "sharedInformer.Run"
    /\ stopper = "closed"
    /\ run' = [ run EXCEPT ![w].informer = "stopped", ![w].pc = "WaitForCacheSync" ]
    /\ UNCHANGED << config, store, sending, advertiseResource, idx, dpc, published,
                    calls, stopper, printed, callLog, notified, received, harness >>

\* "if !cache.WaitForCacheSync(stopCh, HasSynced)": true once HasSynced
\* answers true, false when stopCh is closed before that
WaitForCacheSync(w) ==
    /\ run[w].pc = "WaitForCacheSync"
    /\ run[w].HasSynced \/ stopper = "closed"
    /\ run' = [ run EXCEPT ![w].pc = IF run[w].HasSynced THEN "return" ELSE "HandleError" ]
    /\ UNCHANGED << config, store, sending, advertiseResource, idx, dpc, published,
                    calls, stopper, printed, callLog, notified, received, harness >>

\* "runtime.HandleError(fmt.Errorf("timed out waiting for caches to sync"))"
HandleError(w) ==
    /\ run[w].pc = "HandleError"
    /\ run' = [ run EXCEPT ![w].handled = Append(@, "timed out waiting for caches to sync"),
                           ![w].pc = "return" ]
    /\ UNCHANGED << config, store, sending, advertiseResource, idx, dpc, published,
                    calls, stopper, printed, callLog, notified, received, harness >>

\* "return nil"
RunReturn(w) ==
    /\ run[w].pc = "return"
    /\ run' = [ run EXCEPT ![w].err = "nil", ![w].pc = "returned" ]
    /\ UNCHANGED << config, store, sending, advertiseResource, idx, dpc, published,
                    calls, stopper, printed, callLog, notified, received, harness >>

\* the watchers from the start of their informers to the return of Run,
\* with the existing objects arriving as add notifications
NextRun ==
    \/ \E key \in Keys : NotifyAdd(key)
    \/ \E w \in Watchers : Receive(w)
    \/ HandleRecord
    \/ CloseStopper
    \/ \E w \in Watchers : InformerSynced(w)
    \/ \E w \in Watchers : InformerRunReturns(w)
    \/ \E w \in Watchers : WaitForCacheSync(w)
    \/ \E w \in Watchers : HandleError(w)
    \/ \E w \in Watchers : RunReturn(w)

SpecRun == Init /\ [][NextRun]_vars

\* C21: a watcher's Run makes its cache-sync wait while its informer is
\* running, and before it returns; a failed wait is handed to the error
\* handler and Run returns nil.
C21_StartupBarrier ==
    \A w \in Watchers :
        /\ run[w].pc = "WaitForCacheSync" => InformerRunning(w)
        /\ run[w].pc = "returned" =>
              /\ run[w].err = "nil"
              /\ run[w].HasSynced \/ Len(run[w].handled) = 1

\* --------------------------------- claims on the watchers and dispatcher

\* the events watcher w sends for the notifications before the n-th
RECURSIVE EventsBefore(_, _)
EventsBefore(w, n) ==
    IF n <= 1 THEN 0
    ELSE EventsBefore(w, n - 1)
           + ( IF notified[n - 1].w # w THEN 0
               ELSE IF notified[n - 1].type = "update" THEN 2 ELSE 1 )

\* the events the dispatcher has received from watcher w, in order
ReceivedFrom(w) == SelectSeq(received, LAMBDA r : r.w = w)

\* C1: for every update notification a watcher handles, the dispatcher
\* receives the Removed event with the old object's records strictly before
\* the paired Added event with the new object's records, and nothing else
\* from that watcher in between.
C1_UpdateOrder ==
    \A n \in 1..Len(notified) :
        notified[n].type = "update" =>
            LET w == notified[n].w
                k == EventsBefore(w, n)
                R == ReceivedFrom(w)
            IN  /\ Len(R) > k =>
                     /\ R[k + 1].ev.Action = Deleted
                     /\ \E ord \in KeyOrders :
                          R[k + 1].ev.Records = BuildRecords(w, notified[n].oldObj, ord)
                /\ Len(R) > k + 1 =>
                     /\ R[k + 2].ev.Action = Added
                     /\ \E ord \in KeyOrders :
                          R[k + 2].ev.Records = BuildRecords(w, notified[n].newObj, ord)

\* both events of an update that changed the records have been received
C1_Witness ==
    \E n \in 1..Len(notified) :
        /\ notified[n].type = "update"
        /\ LET w == notified[n].w
               k == EventsBefore(w, n)
               R == ReceivedFrom(w)
           IN  /\ Len(R) >= k + 2
               /\ R[k + 1].ev.Records # << >>
               /\ R[k + 2].ev.Records # << >>
               /\ R[k + 1].ev.Records # R[k + 2].ev.Records

\* the place in received of the k-th event received from watcher w
PositionOf(w, k) ==
    CHOOSE i \in 1..Len(received) :
        /\ received[i].w = w
        /\ Cardinality({ j \in 1..i : received[j].w = w }) = k

\* C13: with the Service watcher and the Ingress watcher running
\* concurrently, the dispatcher receives no event of the other watcher
\* between the Removed event and the paired Added event of one update.
C13_PairNotSplit ==
    \A n \in 1..Len(notified) :
        notified[n].type = "update" =>
            LET w == notified[n].w
                k == EventsBefore(w, n)
            IN  Len(ReceivedFrom(w)) >= k + 2 =>
                    PositionOf(w, k + 2) = PositionOf(w, k + 1) + 1

\* the events watcher w's callbacks emit for the first n notifications, as
\* the action and the object each is built from
RECURSIVE EmittedBy(_, _)
EmittedBy(w, n) ==
    IF n = 0 THEN << >>
    ELSE EmittedBy(w, n - 1)
           \o ( IF notified[n].w # w THEN << >>
                ELSE IF notified[n].type = "add"
                     THEN << [ Action |-> Added, obj |-> notified[n].newObj ] >>
                ELSE IF notified[n].type = "delete"
                     THEN << [ Action |-> Deleted, obj |-> notified[n].oldObj ] >>
                ELSE << [ Action |-> Deleted, obj |-> notified[n].oldObj ],
                        [ Action |-> Added, obj |-> notified[n].newObj ] >> )

\* the events of watcher w: those received, then those it has still to send
HandedOver(w) ==
    [ i \in 1..Len(ReceivedFrom(w)) |-> ReceivedFrom(w)[i].ev ] \o sending[w]

\* C14: notifyChan buffers nothing: every event a watcher emits is either
\* still at its sender, blocked in the send, or has been received by the
\* dispatcher, exactly once and in the order the watcher sent it; this holds
\* in every state, also while the dispatcher is inside a publisher call, so
\* no event is dropped or duplicated and a send completes only by a receive.
\* The events are matched by source and action at every place, and by their
\* records at the event received last (each received event is the last one
\* in the state its receive leads to).
C14_RendezvousNoLoss ==
    \A w \in Watchers :
        \A E \in { EmittedBy(w, Len(notified)) } : \A H \in { HandedOver(w) } :
            /\ Len(H) = Len(E)
            /\ Len(sending[w]) <= 2
            /\ \A i \in 1..Len(H) :
                 /\ H[i].SourceType = w
                 /\ H[i].Action = E[i].Action
                 /\ (i = Len(H) - Len(sending[w]) /\ received[Len(received)].w = w) =>
                       /\ H[i] = received[Len(received)].ev
                       /\ \E ord \in KeyOrders :
                            H[i].Records = BuildRecords(w, E[i].obj, ord)

\* the dispatcher is inside the publisher calls of one event while the
\* Service watcher is blocked at the first send of an update and the Ingress
\* watcher is blocked at a send too
C14_Witness ==
    /\ dpc = "range"
    /\ Len(received) >= 1
    /\ Len(sending["service"]) = 2
    /\ sending["ingress"] # << >>

\* the publisher calls made for the e-th received event, in order
CallsFor(e) == SelectSeq(callLog, LAMBDA c : c.ev = e)

\* C15: the dispatcher handles one event at a time: the publisher calls are
\* grouped by event in the order the events were received, the calls of one
\* event are one per record in the event's list order, and all of them have
\* been made before the first call of the next received event.
C15_SerializedDispatch ==
    /\ \A i, j \in 1..Len(callLog) :
          i < j => /\ callLog[i].ev <= callLog[j].ev
                   /\ callLog[j].ev <= Len(received)
    /\ \A e \in 1..Len(received) :
          LET records == received[e].ev.Records
              made    == CallsFor(e)
          IN  /\ Len(made) <= Len(records)
              /\ \A i \in 1..Len(made) :
                   made[i].record = [ records[i] EXCEPT !.Ttl = recordTTL, !.Class = 1 ]
              /\ (e < Len(received) \/ dpc = "select") => Len(made) = Len(records)
              /\ (e = Len(received) /\ dpc = "range") => Len(made) = idx - 1

\* the five records of a first event have all been handed to the publisher
\* and the dispatcher is inside the calls of the next event
C15_Witness ==
    /\ dpc = "range"
    /\ Len(received) >= 2
    /\ Len(CallsFor(Len(received) - 1)) = 5
    /\ Len(CallsFor(Len(received))) >= 1
    /\ Len(CallsFor(Len(received))) < Len(advertiseResource.Records)

\* ------------------------- callbacks handed an object of another kind

\* an object that is not of the kind the watcher of key expects
Foreign(key) == IF WatcherOf(key) = "service" THEN IngressWeb ELSE ExampleService

\* cache.DeletedFinalStateUnknown: what a DeleteFunc is handed when the
\* informer has missed the delete and only knows the last state
Tombstone(key, obj) == [ kind |-> "DeletedFinalStateUnknown", Key |-> key, Obj |-> obj ]

\* the AddFunc is called with an object of another kind
NotifyAddForeign(key) ==
    /\ Len(notified) < MaxNotifications
    /\ InformerRunning(WatcherOf(key))
    /\ sending[WatcherOf(key)] = << >>
    /\ store[key] = NoObject
    /\ \E ord \in KeyOrders :
         /\ store' = [ store EXCEPT ![key] = Foreign(key) ]
         /\ sending' = [ sending EXCEPT ![WatcherOf(key)] =
                           onAdd(WatcherOf(key), Foreign(key), ord) ]
         /\ notified' = Append(notified, [ w |-> WatcherOf(key), type |-> "add",
                                           oldObj |-> NoObject, newObj |-> Foreign(key) ])
    /\ UNCHANGED << config, advertiseResource, idx, dpc, published, calls, stopper,
                    printed, callLog, received, harness, run >>

\* the UpdateFunc is called with a new object of another kind
NotifyUpdateForeign(key) ==
    /\ Len(notified) < MaxNotifications
    /\ InformerRunning(WatcherOf(key))
    /\ sending[WatcherOf(key)] = << >>
    /\ store[key] # NoObject
    /\ \E ord \in KeyOrders :
         /\ store' = [ store EXCEPT ![key] = Foreign(key) ]
         /\ sending' = [ sending EXCEPT ![WatcherOf(key)] =
                           onUpdate(WatcherOf(key), store[key], Foreign(key), ord) ]
         /\ notified' = Append(notified, [ w |-> WatcherOf(key), type |-> "update",
                                           oldObj |-> store[key], newObj |-> Foreign(key) ])
    /\ UNCHANGED << config, advertiseResource, idx, dpc, published, calls, stopper,
                    printed, callLog, received, harness, run >>

\* the DeleteFunc is called with a DeletedFinalStateUnknown
NotifyDeleteUnknown(key) ==
    /\ Len(notified) < MaxNotifications
    /\ InformerRunning(WatcherOf(key))
    /\ sending[WatcherOf(key)] = << >>
    /\ store[key] # NoObject
    /\ \E ord \in KeyOrders :
         /\ store' = [ store EXCEPT ![key] = NoObject ]
         /\ sending' = [ sending EXCEPT ![WatcherOf(key)] =
                           onDelete(WatcherOf(key), Tombstone(key, store[key]), ord) ]
         /\ notified' = Append(notified, [ w |-> WatcherOf(key), type |-> "delete",
                                           oldObj |-> Tombstone(key, store[key]),
                                           newObj |-> NoObject ])
    /\ UNCHANGED << config, advertiseResource, idx, dpc, published, calls, stopper,
                    printed, callLog, received, harness, run >>

\* objects appear as usual; every later update hands a new object of another
\* kind and every delete a DeletedFinalStateUnknown
NextMismatch ==
    \/ \E key \in Keys : NotifyAdd(key)
    \/ \E key \in Keys : NotifyAddForeign(key)
    \/ \E key \in Keys : NotifyUpdateForeign(key)
    \/ \E key \in Keys : NotifyDeleteUnknown(key)
    \/ \E w \in Watchers : Receive(w)
    \/ HandleRecord

SpecMismatch == Init /\ [][NextMismatch]_vars

\* the kind of object watcher w's type assertion accepts
WatcherKind(w) == IF w = "service" THEN "Service" ELSE "Ingress"

\* the object the e-th received event was built from
SourceObject(e) ==
    LET w == received[e].w
        k == Cardinality({ j \in 1..e : received[j].w = w })
    IN  EmittedBy(w, Len(notified))[k].obj

\* the set a publisher that started empty holds after the first n logged calls
RECURSIVE Replay(_)
Replay(n) ==
    IF n = 0 THEN { }
    ELSE IF callLog[n].op = "Publish" THEN Replay(n - 1) \cup { callLog[n].record }
    ELSE Replay(n - 1) \ { callLog[n].record }

\* C16: when an add, delete or update callback is handed an object that is
\* not of the watcher's kind, the callback still sends its event (one for an
\* add or a delete, two for an update) and the event built from that object
\* has no records; the dispatcher makes no publisher call for it, and as the
\* published set changes by publisher calls only, it is left unchanged.
C16_TypeMismatchNoOp ==
    /\ \A w \in Watchers :
          \A E \in { EmittedBy(w, Len(notified)) } : \A H \in { HandedOver(w) } :
              /\ Len(H) = Len(E)
              /\ \A i \in 1..Len(H) :
                   /\ H[i].Action = E[i].Action
                   /\ E[i].obj.kind # WatcherKind(w) => H[i].Records = << >>
    /\ \A e \in 1..Len(received) :
          SourceObject(e).kind # WatcherKind(received[e].w) => CallsFor(e) = << >>
    /\ published = Replay(Len(callLog))
    /\ (dpc = "range") => advertiseResource.Records # << >>

\* the records of an Ingress are published, the Ingress is then reported
\* deleted by a DeletedFinalStateUnknown, and the dispatcher has received the
\* empty Removed event and is back at its select with the records still
\* published
C16_Witness ==
    /\ Len(notified) >= 2
    /\ notified[Len(notified)].type = "delete"
    /\ notified[Len(notified)].oldObj.kind = "DeletedFinalStateUnknown"
    /\ notified[Len(notified)].oldObj.Obj = IngressWeb
    /\ \A w \in Watchers : sending[w] = << >>
    /\ dpc = "select"
    /\ advertiseResource.Action = Deleted
    /\ advertiseResource.Records = << >>
    /\ calls = << >>
    /\ published # { }

\* every watcher is between callbacks and the dispatcher is back at its select
Quiescent == dpc = "select" /\ \A w \in Watchers : sending[w] = << >>

SeqRange(q) == { q[i] : i \in 1..Len(q) }

\* the records, as the dispatcher stamps them, of the objects now present
PresentRecords(ord) ==
    UNION { { Stamp(r, recordTTL) : r \in SeqRange(BuildRecords(WatcherOf(key), store[key], ord)) } :
            key \in { k \in Keys : store[k] # NoObject } }

\* C2: with a publisher that keeps a set of records, once the dispatcher has
\* processed every emitted event the published records are exactly the
\* records of the resources now present, also when two present resources
\* produce an identical record.
C2_NoStaleOrMissing ==
    Quiescent => \E ord \in KeyOrders : published = PresentRecords(ord)

\* C6: for every event received and every record in it, the dispatcher sets
\* the TTL to the configured record TTL and the class to Internet, and makes
\* exactly one publisher call per record, in order: Publish when the action
\* is Added, UnPublish when it is Deleted, never the other one.
C6_DispatcherRouting ==
    LET ev   == advertiseResource
        done == IF dpc = "range" THEN idx - 1 ELSE Len(ev.Records)
    IN  /\ Len(calls) = done
        /\ \A i \in 1..Len(calls) :
             /\ calls[i].record = [ ev.Records[i] EXCEPT !.Ttl = recordTTL, !.Class = 1 ]
             /\ ev.Action = Added => calls[i].op = "Publish"
             /\ ev.Action = Deleted => calls[i].op = "UnPublish"

\* a Deleted event of five records has been handled under a TTL of 60
C6_Witness ==
    /\ dpc = "select"
    /\ recordTTL = 60
    /\ advertiseResource.Action = Deleted
    /\ Len(advertiseResource.Records) = 5
    /\ Len(calls) = 5
    /\ calls[5].op = "UnPublish"
    /\ calls[5].record.Ttl = 60

\* ------------------------------ a Service with a two-key service-txt

\* the Service of the example with the service-txt annotation
\* {"http":{"path":"/","v":"1"}}
ServiceWithTxt ==
    Service(StrExample, StrDefault, Annotations(<< >>, << >>, << TxtTwoKeys >>, << >>),
            [ Type |-> "LoadBalancer", ClusterIP |-> IPCluster, LBIngress |-> << IPv4a >> ],
            << PortHttp >>)

\* the AddFunc is called with the annotated Service
NotifyAddAnnotated(key) ==
    /\ Len(notified) < MaxNotifications
    /\ InformerRunning(WatcherOf(key))
    /\ WatcherOf(key) = "service"
    /\ sending[WatcherOf(key)] = << >>
    /\ store[key] = NoObject
    /\ \E ord \in KeyOrders :
         /\ store' = [ store EXCEPT ![key] = ServiceWithTxt ]
         /\ sending' = [ sending EXCEPT ![WatcherOf(key)] =
                           onAdd(WatcherOf(key), ServiceWithTxt, ord) ]
         /\ notified' = Append(notified, [ w |-> WatcherOf(key), type |-> "add",
                                           oldObj |-> NoObject, newObj |-> ServiceWithTxt ])
    /\ UNCHANGED << config, advertiseResource, idx, dpc, published, calls, stopper,
                    printed, callLog, received, harness, run >>

\* objects appear, the Service with or without its service-txt, and are
\* deleted unchanged
NextTxt ==
    \/ \E key \in Keys : NotifyAdd(key)
    \/ \E key \in Keys : NotifyAddAnnotated(key)
    \/ \E key \in Keys : NotifyDelete(key)
    \/ \E w \in Watchers : Receive(w)
    \/ HandleRecord

SpecTxt == Init /\ [][NextTxt]_vars

\* C22: a watcher builds the same record sequence whenever it is handed the
\* same object: any two events it emits for one object carry the same
\* records, the strings of every text record in the same order, so the
\* Removed event of an unchanged object carries the records of its Added
\* event.
C22_Deterministic ==
    \A w \in Watchers :
        \A E \in { EmittedBy(w, Len(notified)) } : \A H \in { HandedOver(w) } :
            \A i, j \in 1..Len(H) :
                (i <= Len(E) /\ j <= Len(E) /\ E[i].obj = E[j].obj) =>
                    H[i].Records = H[j].Records

\* ------------------------------------ objects that yield no records

\* the object of key before its load balancer has an address
Pending(key) ==
    IF key = "service default/example"
    THEN Service(StrExample, StrDefault, Annotations(<< >>, << >>, << >>, << << >> >>),
                 [ Type |-> "LoadBalancer", ClusterIP |-> IPCluster, LBIngress |-> << >> ],
                 << PortHttp >>)
    ELSE IF key = "ingress default/web" THEN Ingress(StrWeb, StrDefault, << >>, << HostApp >>)
    ELSE Ingress(StrApi, StrProd, << >>, << HostApp, HostCom >>)

\* the AddFunc is called with an object that has no address yet
NotifyAddPending(key) ==
    /\ Len(notified) < MaxNotifications
    /\ InformerRunning(WatcherOf(key))
    /\ sending[WatcherOf(key)] = << >>
    /\ store[key] = NoObject
    /\ \E ord \in KeyOrders :
         /\ store' = [ store EXCEPT ![key] = Pending(key) ]
         /\ sending' = [ sending EXCEPT ![WatcherOf(key)] =
                           onAdd(WatcherOf(key), Pending(key), ord) ]
         /\ notified' = Append(notified, [ w |-> WatcherOf(key), type |-> "add",
                                           oldObj |-> NoObject, newObj |-> Pending(key) ])
    /\ UNCHANGED << config, advertiseResource, idx, dpc, published, calls, stopper,
                    printed, callLog, received, harness, run >>

\* objects appear without an address, get one by an update, and are deleted
NextPending ==
    \/ \E key \in Keys : NotifyAddPending(key)
    \/ \E key \in Keys : NotifyUpdate(key)
    \/ \E key \in Keys : NotifyDelete(key)
    \/ \E w \in Watchers : Receive(w)
    \/ HandleRecord

SpecPending == Init /\ [][NextPending]_vars

\* the notifications of the given type delivered to watcher w
Delivered(w, type) ==
    Cardinality({ n \in 1..Len(notified) : notified[n].w = w /\ notified[n].type = type })

\* obj is one the watcher w builds no records for: a Service without any
\* of the annotations while publish-all is off, an Ingress outside the
\* namespace the flag names, or an object without a load-balancer address
YieldsNothing(w, obj) ==
    \/ obj.LBIngress = << >>
    \/ w = "service" /\ ~ publishAll /\ DOMAIN obj.Annotations = { }
    \/ w = "ingress" /\ namespace # << >> /\ namespace # obj.Namespace

\* C23: every add notification makes the watcher emit one Added event,
\* every delete notification one Removed event and every update
\* notification two events, whether or not the object yields records; the
\* event of an object that is not eligible, has no address or is filtered
\* out carries no records, and the dispatcher makes no publisher call for it.
C23_OneEventPerNotification ==
    /\ \A w \in Watchers :
          \A H \in { HandedOver(w) } :
              /\ Len(H) = Delivered(w, "add") + Delivered(w, "delete")
                             + 2 * Delivered(w, "update")
              /\ Cardinality({ i \in 1..Len(H) : H[i].Action = Added })
                    = Delivered(w, "add") + Delivered(w, "update")
              /\ Cardinality({ i \in 1..Len(H) : H[i].Action = Deleted })
                    = Delivered(w, "delete") + Delivered(w, "update")
              /\ \A E \in { EmittedBy(w, Len(notified)) } :
                    \A i \in 1..Len(H) :
                        (i <= Len(E) /\ YieldsNothing(w, E[i].obj)) => H[i].Records = << >>
    /\ \A e \in 1..Len(received) :
          received[e].ev.Records = << >> => CallsFor(e) = << >>

\* the Service appeared without an address and its Added event, with no
\* records, was received without a publisher call; an update gave it its
\* address, and the Removed event of the update was empty too while the
\* Added event of the update is being published
C23_Witness ==
    /\ Len(notified) >= 2
    /\ notified[1] = [ w |-> "service", type |-> "add", oldObj |-> NoObject,
                       newObj |-> Pending("service default/example") ]
    /\ notified[2].type = "update" /\ notified[2].w = "service"
    /\ Len(received) = 3
    /\ \A e \in 1..3 : received[e].w = "service"
    /\ received[1].ev.Action = Added /\ received[1].ev.Records = << >>
    /\ received[2].ev.Action = Deleted /\ received[2].ev.Records = << >>
    /\ received[3].ev.Action = Added /\ Len(received[3].ev.Records) = 5
    /\ CallsFor(1) = << >> /\ CallsFor(2) = << >>
    /\ Len(CallsFor(3)) >= 1

\* ---------------------------------------- one call of buildRecords

InitBuild ==
    /\ publishAll \in BOOLEAN
    /\ namespace \in NamespaceFlags
    /\ recordTTL = DefaultTTL
    /\ SystemAtStart
    /\ call \in [ fn : { "ServiceSource.buildRecords" }, obj : ServiceObjects ]
                  \cup [ fn : { "IngressSource.buildRecords" }, obj : IngressObjects ]
    /\ ret = << >>
    /\ pc = "call"

ServiceBuild ==
    /\ pc = "call"
    /\ call.fn = "ServiceSource.buildRecords"
    /\ \E ord \in KeyOrders : ret' = ServiceSource_buildRecords(publishAll, call.obj, ord)
    /\ pc' = "return"
    /\ UNCHANGED << config, system, call >>

IngressBuild ==
    /\ pc = "call"
    /\ call.fn = "IngressSource.buildRecords"
    /\ ret' = IngressSource_buildRecords(namespace, call.obj)
    /\ pc' = "return"
    /\ UNCHANGED << config, system, call >>

NextBuild == ServiceBuild \/ IngressBuild

SpecBuild == InitBuild /\ [][NextBuild]_vars

\* ------------------------------------------------ claims on buildRecords

IsServiceReturn == pc = "return" /\ call.fn = "ServiceSource.buildRecords"

IsIngressReturn == pc = "return" /\ call.fn = "IngressSource.buildRecords"

HasAnyAnnotation(obj) ==
    \E k \in { AnnHostname, AnnInstance, AnnTxt, AnnPublish } : k \in DOMAIN obj.Annotations

HasNonEmptyLBIP(obj) ==
    \E i \in 1..Len(obj.LBIngress) : obj.LBIngress[i] # << >>

\* C3: ServiceSource.buildRecords returns a non-empty record set only if
\* publish-all is enabled or the Service carries the hostname, the
\* service-instance, the service-txt or the publish annotation (the key alone,
\* whatever its value); a Service with none of these gets no record.
C3_ServiceEligibility ==
    (IsServiceReturn /\ ret # << >>) => (publishAll \/ HasAnyAnnotation(call.obj))

\* a Service whose only annotation is an empty service-txt, publish-all off,
\* and records were built
C3_Witness ==
    /\ IsServiceReturn
    /\ ~publishAll
    /\ DOMAIN call.obj.Annotations = { AnnTxt }
    /\ call.obj.Annotations[AnnTxt] = << >>
    /\ ret # << >>

\* the Service watcher is constructed without any switch for the publication
\* of cluster-internal addresses, so that publication is never explicitly enabled
InternalPublicationEnabled == FALSE

\* C4: a Service yields a non-empty record set only if it is of type
\* LoadBalancer with at least one non-empty ingress IP, or of type ClusterIP
\* while internal-address publication is explicitly enabled.
C4_AddressGating ==
    (IsServiceReturn /\ ret # << >>) =>
        \/ call.obj.Type = "LoadBalancer" /\ HasNonEmptyLBIP(call.obj)
        \/ call.obj.Type = "ClusterIP" /\ InternalPublicationEnabled

IngressHasEligibleRule(obj) ==
    \E i \in 1..Len(obj.Rules) :
        obj.Rules[i] # << >> /\ HasSuffix(obj.Rules[i], SufLocal)

ExampleHost == << "e","x","a","m","p","l","e",".","d","e","f","a","u","l","t",".","l","o","c","a","l","." >>

ExampleInstance == << "d","e","f","a","u","l","t","/","e","x","a","m","p","l","e",".","_","h","t","t","p",".","_","t","c","p",".","l","o","c","a","l","." >>

ExampleRecords ==
    << [ Name |-> ExampleHost, Rrtype |-> "A", Class |-> 0, Ttl |-> 0,
         Addr |-> << 192, 0, 2, 10 >>, Ptr |-> << >>,
         Priority |-> 0, Weight |-> 0, Port |-> 0, Target |-> << >>, Txt |-> << >> ],
       [ Name |-> << "1","0",".","2",".","0",".","1","9","2",".","i","n","-","a","d","d","r",".","a","r","p","a","." >>,
         Rrtype |-> "PTR", Class |-> 0, Ttl |-> 0,
         Addr |-> << >>, Ptr |-> ExampleHost,
         Priority |-> 0, Weight |-> 0, Port |-> 0, Target |-> << >>, Txt |-> << >> ],
       [ Name |-> << "_","h","t","t","p",".","_","t","c","p",".","l","o","c","a","l","." >>,
         Rrtype |-> "PTR", Class |-> 0, Ttl |-> 0,
         Addr |-> << >>, Ptr |-> ExampleInstance,
         Priority |-> 0, Weight |-> 0, Port |-> 0, Target |-> << >>, Txt |-> << >> ],
       [ Name |-> ExampleInstance, Rrtype |-> "SRV", Class |-> 0, Ttl |-> 0,
         Addr |-> << >>, Ptr |-> << >>,
         Priority |-> 0, Weight |-> 0, Port |-> 80, Target |-> ExampleHost, Txt |-> << >> ],
       [ Name |-> ExampleInstance, Rrtype |-> "TXT", Class |-> 0, Ttl |-> 0,
         Addr |-> << >>, Ptr |-> << >>,
         Priority |-> 0, Weight |-> 0, Port |-> 0, Target |-> << >>, Txt |-> << << >> >> ] >>

\* a port whose bundle is not skipped
PortKept(obj, port) ==
    /\ port.Name # << >>
    /\ port.Port # 0
    /\ port.Protocol \in { "TCP", "UDP" }
    /\ (AnnInstance \in DOMAIN obj.Annotations => obj.Annotations[AnnInstance] # << >>)

KeptPorts(obj) == SelectSeq(obj.Ports, LAMBDA port : PortKept(obj, port))

\* the hostname before normalisation
RawHostname(obj) ==
    IF AnnHostname \in DOMAIN obj.Annotations THEN obj.Annotations[AnnHostname]
    ELSE obj.Name \o Dot \o obj.Namespace \o SufLocalDot

\* C7: for an eligible Service with a determinable address the record set
\* is, in order, the forward address record for the normalized hostname, the
\* reverse pointer to that hostname, then for each port in Spec.Ports order
\* its pointer/service/text bundle, nothing for a skipped port; the Service
\* of the end-to-end example yields exactly its five records.
C7_ServiceRecordSet ==
    ( /\ IsServiceReturn
      /\ publishAll \/ HasAnyAnnotation(call.obj)
      /\ ServiceIP(call.obj) # << >> ) =>
        LET obj  == call.obj
            kept == KeptPorts(obj)
        IN  /\ Len(ret) = 2 + 3 * Len(kept)
            /\ ret[1].Rrtype \in { "A", "AAAA" }
            /\ HasSuffix(ret[1].Name, SufLocalDot)
            /\ SubSeq(ret[1].Name, 1, Len(RawHostname(obj))) = RawHostname(obj)
            /\ Len(ret[1].Name) <= Len(RawHostname(obj)) + Len(SufLocalDot)
            /\ ret[2].Rrtype = "PTR"
            /\ ret[2].Ptr = ret[1].Name
            /\ \A j \in 1..Len(kept) :
                 /\ ret[3 * j].Rrtype = "PTR"
                 /\ ret[3 * j + 1].Rrtype = "SRV"
                 /\ ret[3 * j + 1].Port = kept[j].Port
                 /\ ret[3 * j + 1].Target = ret[1].Name
                 /\ ret[3 * j + 2].Rrtype = "TXT"
                 /\ ret[3 * j].Ptr = ret[3 * j + 1].Name
            /\ (obj = ExampleService => ret = ExampleRecords)

\* the records of the example Service were built, publish-all off
C7_Witness ==
    /\ IsServiceReturn
    /\ ~publishAll
    /\ call.obj = ExampleService
    /\ Len(ret) = 5

EligibleRules(obj) ==
    SelectSeq(obj.Rules, LAMBDA host : host # << >> /\ HasSuffix(host, SufLocal))

\* C8: for an Ingress with a load-balancer IP that passes the namespace
\* filter, the record set is exactly one forward address record "<host>."
\* per rule whose host is non-empty and ends in ".local", in rule order, and
\* never a reverse pointer; every other rule contributes no record.
C8_IngressTranslation ==
    ( /\ IsIngressReturn
      /\ HasNonEmptyLBIP(call.obj)
      /\ namespace = << >> \/ namespace = call.obj.Namespace ) =>
        LET hosts == EligibleRules(call.obj)
        IN  /\ Len(ret) = Len(hosts)
            /\ \A j \in 1..Len(ret) :
                 /\ ret[j].Rrtype \in { "A", "AAAA" }
                 /\ ret[j].Name = hosts[j] \o Dot
                 /\ ret[j].Addr # << >>

\* rules app.local then app.example.com: one record, for app.local.
C8_Witness ==
    /\ IsIngressReturn
    /\ call.obj.Rules = << HostApp, HostCom >>
    /\ Len(ret) = 1
    /\ ret[1].Name = HostApp \o Dot
    /\ ret[1].Rrtype = "A"

\* the records of type TXT in a record set
TxtRecords(records) == SelectSeq(records, LAMBDA r : r.Rrtype = "TXT")

\* the service-txt annotation is present and json.Unmarshal does not accept it
HasUnusableTxt(obj) ==
    /\ AnnTxt \in DOMAIN obj.Annotations
    /\ ~Unmarshal(obj.Annotations[AnnTxt]).ok

\* C11: when a Service's service-txt annotation is present but is not JSON of
\* the expected shape, the Service is still eligible (with an address it
\* gets its address pair and one bundle per kept port, publish-all or not),
\* and the text record of every bundle is the single empty string: nothing
\* the decoder had read before it failed is used.
C11_MalformedTxt ==
    (IsServiceReturn /\ HasUnusableTxt(call.obj) /\ ServiceIP(call.obj) # << >>) =>
        /\ Len(ret) = 2 + 3 * Len(KeptPorts(call.obj))
        /\ Len(TxtRecords(ret)) = Len(KeptPorts(call.obj))
        /\ \A i \in 1..Len(ret) :
             ret[i].Rrtype = "TXT" => ret[i].Txt = << << >> >>

\* a Service whose only annotation is a service-txt of the wrong shape, with
\* a port http the decoder had filled in, got its five records, publish-all off
C11_Witness ==
    /\ IsServiceReturn
    /\ ~publishAll
    /\ DOMAIN call.obj.Annotations = { AnnTxt }
    /\ call.obj.Annotations[AnnTxt] = TxtWrongShape
    /\ Unmarshal(TxtWrongShape).ports = { StrHttp }
    /\ call.obj.Ports = << PortHttp >>
    /\ Len(ret) = 5
    /\ ret[5].Txt = << << >> >>

\* ------------------------------------- the hostname steps on any string

\* the longest free part of a hostname of the model
MaxLen == 4

HostChars == { ".", "l", "o", "c", "a" }

FreeStrings == UNION { [ 1..n -> HostChars ] : n \in 0..MaxLen }

\* the endings that matter to the two suffix tests: every prefix and every
\* suffix of ".local." and of ".local.."
HostTails ==
    { SubSeq(SufLocalDot, 1, n) : n \in 0..Len(SufLocalDot) }
      \cup { SubSeq(SufLocalDot, n, Len(SufLocalDot)) : n \in 1..Len(SufLocalDot) }
      \cup { SubSeq(SufLocalDot \o Dot, n, Len(SufLocalDot) + 1) : n \in 1..Len(SufLocalDot) }

HostnameInputs == { p \o t : p \in FreeStrings, t \in HostTails }

InitNorm ==
    /\ publishAll = FALSE
    /\ namespace = << >>
    /\ recordTTL = DefaultTTL
    /\ SystemAtStart
    /\ call \in [ fn : { "normalize" }, x : HostnameInputs ]
    /\ ret = << >>
    /\ pc = "call"

\* the hostname steps of buildRecords, applied to the input
NormalizeFirst ==
    /\ pc = "call"
    /\ call.fn = "normalize"
    /\ ret' = << NormalizeHostname(call.x) >>
    /\ pc' = "once"
    /\ UNCHANGED << config, system, call >>

\* the same steps applied to their own result
NormalizeAgain ==
    /\ pc = "once"
    /\ call.fn = "normalize"
    /\ ret' = Append(ret, NormalizeHostname(ret[1]))
    /\ pc' = "twice"
    /\ UNCHANGED << config, system, call >>

NextNorm == NormalizeFirst \/ NormalizeAgain

SpecNorm == InitNorm /\ [][NextNorm]_vars

\* C9: for every input string x, normalize(x) ends in ".local." with
\* exactly one trailing dot, and normalize(normalize(x)) = normalize(x).
C9_NormalizeIdempotent ==
    /\ (call.fn = "normalize" /\ pc \in { "once", "twice" }) =>
           /\ HasSuffix(ret[1], SufLocalDot)
           /\ ret[1][Len(ret[1])] = "."
           /\ ret[1][Len(ret[1]) - 1] # "."
           /\ Len(ret[1]) >= Len(call.x)
           /\ SubSeq(ret[1], 1, Len(call.x)) = call.x
    /\ (call.fn = "normalize" /\ pc = "twice") => ret[2] = ret[1]

\* an input that ends in "local." but not in ".local." went through both
\* applications and grew by "local." once
C9_Witness ==
    /\ call.fn = "normalize"
    /\ pc = "twice"
    /\ call.x = << "a" >> \o StrLocalDot
    /\ ret[2] = << "a" >> \o StrLocalDot \o StrLocalDot

\* ------------------------------------------------ buildSRVRecord alone

StrHTTP == << "H","T","T","P" >>

SRVInputs ==
    [ fn           : { "buildSRVRecord" },
      instancename : { << >>, StrMyNas, << "d","e","f","a","u","l","t","/","e","x","a","m","p","l","e" >> },
      servicename  : { << >>, StrHttp, StrHTTP, << "D","N","S" >> },
      protocol     : { "TCP", "UDP", "SCTP", "" },
      hostname     : { << >>, << "e","x","a","m","p","l","e",".","d","e","f","a","u","l","t",".","l","o","c","a","l","." >>, StrNasLocalDot },
      port         : { 0, 80, 65535 },
      txt          : { << >>, << << "v","=","1" >> >>,
                       << << "p","a","t","h","=","/" >>, << "v","=","1" >> >> } ]

InitSRV ==
    /\ publishAll = FALSE
    /\ namespace = << >>
    /\ recordTTL = DefaultTTL
    /\ SystemAtStart
    /\ call \in SRVInputs
    /\ ret = << >>
    /\ pc = "call"

SRVBuild ==
    /\ pc = "call"
    /\ call.fn = "buildSRVRecord"
    /\ ret' = buildSRVRecord(call.instancename, call.servicename, call.protocol,
                             call.hostname, call.port, call.txt)
    /\ pc' = "return"
    /\ UNCHANGED << config, system, call >>

NextSRV == SRVBuild

SpecSRV == InitSRV /\ [][NextSRV]_vars

\* C10: every non-skipped bundle of buildSRVRecord is [pointer, service,
\* text] in that order; the pointer's owner is
\* "_<lowercased service name>._<tcp|udp>.local.", its target is the service
\* record's owner "<instance>.<group owner>", the text record has the same
\* owner, and the service record has priority 0, weight 0, the given port
\* and the hostname as target.
C10_SRVBundle ==
    (pc = "return" /\ call.fn = "buildSRVRecord" /\ ret # << >>) =>
        LET group == << "_" >> \o ToLower(call.servicename) \o << ".", "_" >>
                       \o (IF call.protocol = "TCP" THEN << "t","c","p" >>
                           ELSE << "u","d","p" >>)
                       \o SufLocalDot
        IN  /\ Len(ret) = 3
            /\ call.protocol \in { "TCP", "UDP" }
            /\ << ret[1].Rrtype, ret[2].Rrtype, ret[3].Rrtype >> = << "PTR", "SRV", "TXT" >>
            /\ ret[1].Name = group
            /\ \A i \in 1..Len(group) : \A k \in 1..Len(UpperLetters) : group[i] # UpperLetters[k]
            /\ (call.servicename = StrHTTP /\ call.protocol = "UDP"
                  => ret[1].Name = << "_","h","t","t","p",".","_","u","d","p",".","l","o","c","a","l","." >>)
            /\ ret[1].Ptr = ret[2].Name
            /\ ret[2].Name = call.instancename \o Dot \o group
            /\ ret[3].Name = ret[2].Name
            /\ ret[2].Priority = 0
            /\ ret[2].Weight = 0
            /\ ret[2].Port = call.port
            /\ ret[2].Target = call.hostname

\* a bundle was built for the service name HTTP over UDP
C10_Witness ==
    /\ pc = "return"
    /\ call.fn = "buildSRVRecord"
    /\ call.servicename = StrHTTP
    /\ call.protocol = "UDP"
    /\ call.instancename = StrMyNas
    /\ Len(ret) = 3

\* ------------------------------- the bundles of a Service, port by port

\* the longest Spec.Ports of a Service of this part of the model
MaxPorts == 2

PortSet == { PortHttp, PortDNS, PortSCTP, PortUnnamed }

\* LoadBalancer Services example/default at 192.0.2.10 that differ in their
\* ports, their service-instance annotation (absent, given, empty) and their
\* service-txt annotation
PortServices ==
    { Service(StrExample, StrDefault, Annotations(<< >>, i, t, << >>),
              [ Type |-> "LoadBalancer", ClusterIP |-> IPCluster, LBIngress |-> << IPv4a >> ],
              ports) :
        i \in { << >>, << StrMyNas >>, << << >> >> },
        t \in { << >>, << TxtTwoKeys >> },
        ports \in UNION { [ 1..n -> PortSet ] : n \in 0..MaxPorts } }

InitPorts ==
    /\ publishAll = TRUE
    /\ namespace = << >>
    /\ recordTTL = DefaultTTL
    /\ SystemAtStart
    /\ call \in SRVInputs \cup [ fn : { "ServiceSource.buildRecords" }, obj : PortServices ]
    /\ ret = << >>
    /\ pc = "call"

NextPorts == SRVBuild \/ ServiceBuild

SpecPorts == InitPorts /\ [][NextPorts]_vars

\* the instance name buildRecords hands to buildSRVRecord
InstanceName(obj) ==
    IF AnnInstance \in DOMAIN obj.Annotations THEN obj.Annotations[AnnInstance]
    ELSE obj.Namespace \o << "/" >> \o obj.Name

\* C17: buildSRVRecord returns no record exactly when the instance name, the
\* port (service) name or the hostname is empty, the port is zero, or the
\* protocol is neither TCP nor UDP, and three records otherwise; in a
\* Service's record set a skipped port takes away its own three records
\* only: the set is the one of the same Service without its skipped ports,
\* and it starts with the address pair of the same Service without ports.
C17_SkipPerPort ==
    /\ (pc = "return" /\ call.fn = "buildSRVRecord") =>
          /\ ret = << >> <=> ( \/ call.instancename = << >>
                               \/ call.servicename = << >>
                               \/ call.hostname = << >>
                               \/ call.port = 0
                               \/ call.protocol \notin { "TCP", "UDP" } )
          /\ ret # << >> => Len(ret) = 3
    /\ IsServiceReturn =>
          LET obj     == call.obj
              skipped == { p \in 1..Len(obj.Ports) :
                             \/ InstanceName(obj) = << >>
                             \/ obj.Ports[p].Name = << >>
                             \/ obj.Ports[p].Port = 0
                             \/ obj.Ports[p].Protocol \notin { "TCP", "UDP" } }
              others  == SelectSeq(obj.Ports,
                                   LAMBDA port : /\ InstanceName(obj) # << >>
                                                 /\ port.Name # << >>
                                                 /\ port.Port # 0
                                                 /\ port.Protocol \in { "TCP", "UDP" })
          IN  /\ Len(ret) = 2 + 3 * (Len(obj.Ports) - Cardinality(skipped))
              /\ \E ord \in KeyOrders :
                   /\ ret = ServiceSource_buildRecords(publishAll,
                                                       [ obj EXCEPT !.Ports = others ], ord)
                   /\ SubSeq(ret, 1, 2) =
                        ServiceSource_buildRecords(publishAll,
                                                   [ obj EXCEPT !.Ports = << >> ], ord)

\* a Service whose first port is skipped for its protocol and whose second
\* port is kept: the address pair and the bundle of http
C17_Witness ==
    /\ IsServiceReturn
    /\ call.obj.Ports = << PortSCTP, PortHttp >>
    /\ AnnInstance \notin DOMAIN call.obj.Annotations
    /\ Len(ret) = 5
    /\ ret[4].Rrtype = "SRV"
    /\ ret[4].Port = 80

\* -------------------------------------------------- buildARecord alone

Octets == { 0, 2, 10, 192, 255 }

\* 4-byte addresses
V4Addrs == [ 1..4 -> Octets ]

\* 2001:db8::1 as net.ParseIP returns it
IP2001db8 == << 32,1,13,184, 0,0,0,0, 0,0,0,0, 0,0,0,1 >>

\* 16-byte addresses: the IPv4-mapped form of every 4-byte address, and
\* addresses that are not IPv4-mapped: 2001:db8:: with every pair of last
\* bytes, the IPv4-compatible ::192.0.2.10, and one that misses the mapped
\* prefix by a bit
V6Addrs ==
    { V4InV6Prefix \o a : a \in V4Addrs }
      \cup { << 32,1,13,184, 0,0,0,0, 0,0,0,0, 0,0 >> \o << x, y >> :
                x \in { 0, 1, 171, 255 }, y \in { 0, 1, 171, 255 } }
      \cup { << 0,0,0,0, 0,0,0,0, 0,0,0,0,     192,0,2,10 >>,
             << 0,0,0,0, 0,0,0,0, 0,0,255,254, 192,0,2,10 >> }

AInputs ==
    [ fn         : { "buildARecord" },
      name       : { ExampleHost, HostApp \o Dot },
      addr       : V4Addrs \cup V6Addrs,
      addReverse : BOOLEAN ]

InitA ==
    /\ publishAll = FALSE
    /\ namespace = << >>
    /\ recordTTL = DefaultTTL
    /\ SystemAtStart
    /\ call \in AInputs
    /\ ret = << >>
    /\ pc = "call"

ABuild ==
    /\ pc = "call"
    /\ call.fn = "buildARecord"
    /\ ret' = buildARecord(call.name, call.addr, call.addReverse)
    /\ pc' = "return"
    /\ UNCHANGED << config, system, call >>

NextA == ABuild

SpecA == InitA /\ [][NextA]_vars

\* whether a 4-byte or 16-byte address is an IPv4 address
IsIPv4(addr) ==
    \/ Len(addr) = 4
    \/ /\ Len(addr) = 16
       /\ \A k \in 1..10 : addr[k] = 0
       /\ addr[11] = 255
       /\ addr[12] = 255

\* the value of a lowercase hexadecimal digit, -1 for any other character
HexVal(c) ==
    IF \E k \in 1..16 : HexDigits[k] = c
    THEN (CHOOSE k \in 1..16 : HexDigits[k] = c) - 1
    ELSE -1

Rev192_0_2_10 == << "1","0",".","2",".","0",".","1","9","2",".","i","n","-","a","d","d","r",".","a","r","p","a","." >>

Rev2001db8_1 == << "1",".","0",".","0",".","0",".","0",".","0",".","0",".","0",".","0",".","0",".","0",".","0",".","0",".","0",".","0",".","0",".","0",".","0",".","0",".","0",".","0",".","0",".","0",".","0",".","8",".","b",".","d",".","0",".","1",".","0",".","0",".","2",".","i","p","6",".","a","r","p","a","." >>

\* C18: for an IPv4 address a.b.c.d, 4-byte or IPv4-mapped, buildARecord
\* emits subtype A and the reverse name "d.c.b.a.in-addr.arpa."; for any
\* other address subtype AAAA and a reverse name of exactly 32 labels of one
\* lowercase hexadecimal digit, from the last byte to the first with the low
\* nibble before the high one, then "ip6.arpa."; the reverse pointer targets
\* the forward record's name and comes after the forward record; without
\* the reverse flag the forward record is alone.
C18_ReverseName ==
    (pc = "return" /\ call.fn = "buildARecord") =>
        LET addr == call.addr
            quad == SubSeq(addr, Len(addr) - 3, Len(addr))
        IN  /\ Len(ret) = IF call.addReverse THEN 2 ELSE 1
            /\ ret[1].Name = call.name
            /\ IsIPv4(addr) => ret[1].Rrtype = "A" /\ ret[1].Addr = quad
            /\ ~IsIPv4(addr) => ret[1].Rrtype = "AAAA" /\ ret[1].Addr = addr
            /\ call.addReverse =>
                 LET labels == SplitDots(ret[2].Name, << >>, << >>) IN
                 /\ ret[2].Rrtype = "PTR"
                 /\ ret[2].Ptr = ret[1].Name
                 /\ IsIPv4(addr) =>
                      /\ Len(labels) = 7
                      /\ \A k \in 1..4 : FieldVal(labels[k]) = quad[5 - k]
                      /\ SubSeq(labels, 5, 7) =
                           << << "i","n","-","a","d","d","r" >>, << "a","r","p","a" >>, << >> >>
                      /\ quad = << 192, 0, 2, 10 >> => ret[2].Name = Rev192_0_2_10
                 /\ ~IsIPv4(addr) =>
                      /\ Len(labels) = 35
                      /\ \A k \in 1..32 :
                           /\ Len(labels[k]) = 1
                           /\ HexVal(labels[k][1]) =
                                IF k % 2 = 1 THEN addr[16 - ((k - 1) \div 2)] % 16
                                ELSE addr[16 - ((k - 1) \div 2)] \div 16
                      /\ SubSeq(labels, 33, 35) =
                           << << "i","p","6" >>, << "a","r","p","a" >>, << >> >>
                      /\ addr = IP2001db8 => ret[2].Name = Rev2001db8_1

\* the forward and reverse records of 2001:db8::1 were built
C18_Witness ==
    /\ pc = "return"
    /\ call.fn = "buildARecord"
    /\ call.addr = IP2001db8
    /\ call.addReverse
    /\ Len(ret) = 2
    /\ ret[1].Rrtype = "AAAA"
    /\ ret[2].Name = Rev2001db8_1

\* ------------------------------------- more claims on buildRecords

\* the last entry of lbs whose IP is not empty
LastNonEmpty(lbs) ==
    lbs[CHOOSE i \in 1..Len(lbs) :
            /\ lbs[i] # << >>
            /\ \A j \in (i + 1)..Len(lbs) : lbs[j] = << >>]

Rev192_0_2_11 == << "1","1",".","2",".","0",".","1","9","2",".","i","n","-","a","d","d","r",".","a","r","p","a","." >>

\* the load-balancer IPs of the model: the text, the bytes an address
\* record carries for it, and its reverse name
KnownIPs ==
    { [ text |-> IPv4a, bytes |-> << 192, 0, 2, 10 >>, reverse |-> Rev192_0_2_10 ],
      [ text |-> IPv4b, bytes |-> << 192, 0, 2, 11 >>, reverse |-> Rev192_0_2_11 ],
      [ text |-> IPv6a, bytes |-> IP2001db8,           reverse |-> Rev2001db8_1 ] }

KnownIP(text) == CHOOSE k \in KnownIPs : k.text = text

\* C19: for a LoadBalancer Service and for an Ingress, the address of every
\* record is the IP of the last load-balancer entry whose IP is not empty
\* (the forward records carry it, the reverse pointer is named after it),
\* and an eligible resource gets records whenever at least one entry has a
\* non-empty IP, and none when no entry has.
C19_LastLoadBalancerIP ==
    /\ ( /\ IsServiceReturn
         /\ call.obj.Type = "LoadBalancer"
         /\ publishAll \/ HasAnyAnnotation(call.obj) ) =>
           /\ ret # << >> <=> HasNonEmptyLBIP(call.obj)
           /\ ret # << >> =>
                LET ip == KnownIP(LastNonEmpty(call.obj.LBIngress))
                IN  /\ ret[1].Addr = ip.bytes
                    /\ ret[2].Name = ip.reverse
                    /\ \A i \in 3..Len(ret) : ret[i].Addr = << >>
    /\ ( /\ IsIngressReturn
         /\ namespace = << >> \/ namespace = call.obj.Namespace
         /\ IngressHasEligibleRule(call.obj) ) =>
           /\ ret # << >> <=> HasNonEmptyLBIP(call.obj)
           /\ \A i \in 1..Len(ret) :
                ret[i].Addr = KnownIP(LastNonEmpty(call.obj.LBIngress)).bytes

\* a Service with the entries 192.0.2.10 then 2001:db8::1 got the records of
\* 2001:db8::1
C19_Witness ==
    /\ IsServiceReturn
    /\ call.obj.LBIngress = << IPv4a, IPv6a >>
    /\ Len(ret) >= 2
    /\ ret[1].Rrtype = "AAAA"
    /\ ret[1].Addr = IP2001db8
    /\ ret[2].Name = Rev2001db8_1

\* a name that ends in one dot, not in two
EndsInOneDot(name) ==
    /\ Len(name) >= 2
    /\ name[Len(name)] = "."
    /\ name[Len(name) - 1] # "."

\* C20: every record either buildRecords returns (forward, reverse, pointer,
\* service, text) has an owner name that ends in exactly one dot, whatever
\* the namespace, the hostname and service-instance annotations, the port
\* names and the rule hosts.
C20_OwnerNameOneDot ==
    (pc = "return" /\ (IsServiceReturn \/ IsIngressReturn)) =>
        \A i \in 1..Len(ret) : EndsInOneDot(ret[i].Name)

\* a Service whose hostname annotation ends in two dots got its address
\* pair and bundles, the forward record under "nas..local."
C20_Witness ==
    /\ IsServiceReturn
    /\ AnnHostname \in DOMAIN call.obj.Annotations
    /\ call.obj.Annotations[AnnHostname] = StrNasDots
    /\ Len(ret) = 8
    /\ ret[1].Name = StrNasDots \o StrLocalDot
    /\ ret[8].Rrtype = "TXT"

====
